---------------------------- MODULE Spec2Model ----------------------------
(***************************************************************************)
(* A state-machine model of farmrpg-chat-enhancer.user.js: the shared      *)
(* MutationObserver, the dispatcher handleChatMutations and the five       *)
(* feature handlers (mentions, highlighting, separator, markers,           *)
(* keywords), together with the host page (the chat container and the      *)
(* messages it inserts and removes) and the user (the sidebar buttons and  *)
(* the pin buttons).                                                       *)
(*                                                                         *)
(* Strings are sequences of one-character strings, so that toLowerCase,    *)
(* includes, trim and the fingerprint's concatenation are computed.        *)
(***************************************************************************)
EXTENDS Integers, Sequences, FiniteSets, TLC

\* ------------------------------------------------------------------------
\* Bounds of the model
\* ------------------------------------------------------------------------

\* Most elements (messages and separators) the chat container holds once
\* the host page has changed it.
MaxDom == 2

\* Most messages the host inserts in one mutation batch.
MaxBatch == 2

\* Most startObserver calls awaiting findChatContainer at one time.
MaxFinders == 2

\* How many more distinct messages than a history set holds the host page
\* inserts one after the other.
MaxOverflow == 3

\* ------------------------------------------------------------------------
\* Program constants
\* ------------------------------------------------------------------------

\* CONFIG.MAX_SEEN_MESSAGES
MAX_SEEN_MESSAGES == 100

\* findChatContainer(maxAttempts = 20, ...)
maxAttempts == 20

\* text.substring(0, 100) in the mention notification
MentionBodyLimit == 100

\* null (and undefined): a value no string equals, comparable with strings
Null == <<"null">>

\* ------------------------------------------------------------------------
\* Strings
\* ------------------------------------------------------------------------

UpperToLower ==
    [c \in {"A","B","D","E","G","O","P","S","W"} |->
        CASE c = "A" -> "a" [] c = "B" -> "b" [] c = "D" -> "d"
          [] c = "E" -> "e" [] c = "G" -> "g" [] c = "O" -> "o"
          [] c = "P" -> "p" [] c = "S" -> "s" [] c = "W" -> "w"]

\* String.prototype.toLowerCase
toLowerCase(s) ==
    [i \in 1..Len(s) |-> IF s[i] \in DOMAIN UpperToLower THEN UpperToLower[s[i]] ELSE s[i]]

\* String.prototype.includes
includes(s, sub) ==
    \E i \in 0..(Len(s) - Len(sub)) : SubSeq(s, i + 1, i + Len(sub)) = sub

\* String.prototype.substring(0, n)
substring0(s, n) == SubSeq(s, 1, IF Len(s) < n THEN Len(s) ELSE n)

RECURSIVE trimStart(_)
trimStart(s) == IF s # <<>> /\ Head(s) = " " THEN trimStart(Tail(s)) ELSE s

RECURSIVE trimEnd(_)
trimEnd(s) ==
    IF s # <<>> /\ s[Len(s)] = " " THEN trimEnd(SubSeq(s, 1, Len(s) - 1)) ELSE s

\* String.prototype.trim
trim(s) == trimEnd(trimStart(s))

\* s.replace(/\+/g, " ")
replacePlus(s) == [i \in 1..Len(s) |-> IF s[i] = "+" THEN " " ELSE s[i]]

sanitizeUsername(username) ==
    IF username = Null \/ username = <<>> THEN <<>>
    ELSE LET t == trim(username)
             a == IF t # <<>> /\ Head(t) = "@" THEN Tail(t) ELSE t
         IN  IF a # <<>> /\ a[Len(a)] = ":" THEN SubSeq(a, 1, Len(a) - 1) ELSE a

\* normalizeUsername without replace(/\+/g, " ").
normalizeUsernameKeepPlus(username) == toLowerCase(sanitizeUsername(username))

normalizeUsername(username) == replacePlus(toLowerCase(sanitizeUsername(username)))


\* ------------------------------------------------------------------------
\* CONFIG
\* ------------------------------------------------------------------------

HIGHLIGHT_BORDER == "3px solid #fb7a24"
MARKER_BORDER == "3px solid #ffd700"
MARKER_BG == "rgba(255, 215, 0, 0.1)"
KEYWORD_HIGHLIGHT_BG == "rgba(168, 85, 247, 0.15)"
KEYWORD_BORDER_LEFT == "4px solid #a855f7"

\* ------------------------------------------------------------------------
\* Elements of the chat container
\* ------------------------------------------------------------------------

\* An element's inline style.  The shorthand border sets all four sides,
\* borderLeft one of them; border holds the top, right and bottom sides and
\* borderLeft the left side.  padding and paddingLeft likewise.
NoStyle ==
    [border |-> "", borderLeft |-> "", backgroundColor |-> "",
     borderRadius |-> "", padding |-> "", paddingLeft |-> "", position |-> ""]

\* No .chat-marker-btn child; else button is the button's opacity.
NoButton == "none"

\* A .chat-txt element as the host page inserts it: children[0] is the
\* timestamp, children[2] the author, children[5] the text; profile is the
\* user_name of its first profile.php link; items are the alt texts of the
\* <a><img></a> children of children[5].  A missing child is Null.
Message(timestamp, author, profile, text, items) ==
    [kind |-> "chat-txt", timestamp |-> timestamp, author |-> author,
     profile |-> profile, text |-> text, items |-> items,
     classList |-> {}, style |-> NoStyle, button |-> NoButton, badges |-> <<>>]

\* The div.chat-separator insertSeparator creates.
Separator == [kind |-> "chat-separator"]

IsMessage(e) == e.kind = "chat-txt"

IsSeparator(e) == e.kind = "chat-separator"

\* x?.textContent || ""
textContent(child) == IF child = Null THEN <<>> ELSE child

getMessageFingerprint(messageElement) ==
    trim(textContent(messageElement.timestamp) \o <<":">> \o textContent(messageElement.text))

\* children[2]?.textContent: the author's text followed by the badges
\* applyKeywordHighlight appended to that child.
RECURSIVE badgeText(_)
badgeText(badges) ==
    IF badges = <<>> THEN <<>> ELSE <<"!", " ">> \o Head(badges) \o badgeText(Tail(badges))

authorText(msg) ==
    IF msg.author = Null \/ msg.author \o badgeText(msg.badges) = <<>>
    THEN <<"S","o","m","e","o","n","e">>
    ELSE msg.author \o badgeText(msg.badges)

\* The indices of the .chat-txt elements of the document, in document order.
MessageIndices(dom) ==
    SelectSeq([i \in 1..Len(dom) |-> i], LAMBDA i : IsMessage(dom[i]))

\* The index in the document of the j-th of the k messages a batch added:
\* the host appends a batch at the end of the container, and the script
\* inserts nothing but separators between messages.
BatchIndex(dom, k, j) ==
    LET idx == MessageIndices(dom) IN idx[Len(idx) - k + j]

SeqToSet(s) == {s[i] : i \in 1..Len(s)}

\* ------------------------------------------------------------------------
\* The history sets (state.seenMessages, state.keywordMatches): a JS Set
\* iterates in insertion order, so it is a sequence without repeats.
\* ------------------------------------------------------------------------

\* Set.prototype.has
has(set, value) == value \in SeqToSet(set)

\* Set.prototype.add
add(set, value) == IF has(set, value) THEN set ELSE Append(set, value)

\* Set.prototype.delete
delete(set, value) == SelectSeq(set, LAMBDA x : x # value)

\* The trim with its size test off by one: a set one over the size is kept.
trimHistoryLate(set) ==
    IF Len(set) > MAX_SEEN_MESSAGES + 1
    THEN SubSeq(set, Len(set) - MAX_SEEN_MESSAGES + 1, Len(set))
    ELSE set

\* The trim with slice(0, CONFIG.MAX_SEEN_MESSAGES): it keeps the oldest.
trimHistoryOldest(set) ==
    IF Len(set) > MAX_SEEN_MESSAGES
    THEN SubSeq(set, 1, MAX_SEEN_MESSAGES)
    ELSE set

\* new Set(Array.from(set).slice(-CONFIG.MAX_SEEN_MESSAGES)) when over size
trimHistory(set) ==
    IF Len(set) > MAX_SEEN_MESSAGES
    THEN SubSeq(set, Len(set) - MAX_SEEN_MESSAGES + 1, Len(set))
    ELSE set


\* ------------------------------------------------------------------------
\* The handlers.  A handler is an operator on a world w: the script's
\* state object, the document, the notifications shown so far in this
\* callback, and whether an exception is propagating (thrown).
\* ------------------------------------------------------------------------

\* !x for a string or null
falsy(x) == x = Null \/ x = <<>>

\* showNotification(title, message): the call, with the fingerprint of the
\* message it is about.  GM_notification and new Notification are the
\* page's; throws says whether this platform's call throws.
showNotification(w, title, message, fingerprint, throws) ==
    IF throws
    THEN [w EXCEPT !.thrown = TRUE]
    ELSE [w EXCEPT !.notified =
            Append(@, [title |-> title, message |-> message, fingerprint |-> fingerprint])]

\* The loop body without the look-up in state.seenMessages.
mentionMessageUnchecked(w, i, throws) ==
    LET msg == w.dom[i]
        username == toLowerCase(w.state.username)
        text == msg.text
        fingerprint == getMessageFingerprint(msg)
    IN  IF falsy(text) THEN w
        ELSE IF ~includes(toLowerCase(text), username) THEN w
        ELSE showNotification(
                [w EXCEPT !.state.seenMessages = trimHistory(add(@, fingerprint))],
                <<"You were mentioned!">>,
                authorText(msg) \o <<":", " ">> \o substring0(text, MentionBodyLimit),
                fingerprint, throws)

\* The loop body without `if (!textContainer) continue`: reading innerText
\* of the missing child throws a TypeError.
mentionMessageUnguarded(w, i, throws) ==
    LET msg == w.dom[i]
        username == toLowerCase(w.state.username)
        text == msg.text
        fingerprint == getMessageFingerprint(msg)
    IN  IF text = Null THEN [w EXCEPT !.thrown = TRUE]
        ELSE IF falsy(text) THEN w
        ELSE IF ~includes(toLowerCase(text), username) THEN w
        ELSE IF has(w.state.seenMessages, fingerprint) THEN w
        ELSE showNotification(
                [w EXCEPT !.state.seenMessages = trimHistory(add(@, fingerprint))],
                <<"You were mentioned!">>,
                authorText(msg) \o <<":", " ">> \o substring0(text, MentionBodyLimit),
                fingerprint, throws)

\* The body of checkForMentions' loop for the message at index i.
mentionMessage(w, i, throws) ==
    LET msg == w.dom[i]
        username == toLowerCase(w.state.username)
        text == msg.text
        fingerprint == getMessageFingerprint(msg)
    IN  IF falsy(text) THEN w
        ELSE IF ~includes(toLowerCase(text), username) THEN w
        ELSE IF has(w.state.seenMessages, fingerprint) THEN w
        ELSE showNotification(
                [w EXCEPT !.state.seenMessages = trimHistory(add(@, fingerprint))],
                <<"You were mentioned!">>,
                authorText(msg) \o <<":", " ">> \o substring0(text, MentionBodyLimit),
                fingerprint, throws)

RECURSIVE mentionLoop(_, _, _, _)
mentionLoop(w, k, j, throws) ==
    IF j > k \/ w.thrown THEN w
    ELSE mentionLoop(mentionMessage(w, BatchIndex(w.dom, k, j), throws), k, j + 1, throws)

\* The handler without the test of state.features.mentions.
checkForMentionsUnguarded(w, k, throws) ==
    IF falsy(w.state.username) THEN w
    ELSE mentionLoop(w, k, 1, throws)

checkForMentions(w, k, throws) ==
    IF ~w.state.features.mentions \/ falsy(w.state.username) THEN w
    ELSE mentionLoop(w, k, 1, throws)

\* href.match(/user_name=(.+)$/) on the message's first profile link, then
\* the comparison of the normalized names.
isOwnMessage(msg, username) ==
    /\ ~falsy(msg.profile)
    /\ normalizeUsername(msg.profile) = normalizeUsername(username)

highlightStyle(style) ==
    [style EXCEPT !.border = HIGHLIGHT_BORDER, !.borderLeft = HIGHLIGHT_BORDER,
                  !.borderRadius = "6px", !.padding = "2px", !.paddingLeft = "2px"]

\* highlightOwnMessages over the messages at the indices in the set at.
highlightOwnMessages(w, at) ==
    IF ~w.state.features.highlighting \/ falsy(w.state.username) THEN w
    ELSE [w EXCEPT !.dom =
            [i \in 1..Len(@) |->
                IF i \in at /\ IsMessage(@[i]) /\ isOwnMessage(@[i], w.state.username)
                THEN [@[i] EXCEPT !.style = highlightStyle(@)]
                ELSE @[i]]]

BatchSet(dom, k) == {BatchIndex(dom, k, j) : j \in 1..k}

insertSeparator(dom, i) ==
    IF i > 1 /\ IsSeparator(dom[i - 1]) THEN dom
    ELSE SubSeq(dom, 1, i - 1) \o <<Separator>> \o SubSeq(dom, i, Len(dom))

\* The first message of the batch whose fingerprint is fp, or 0.
FirstWithFingerprint(dom, k, fp) ==
    LET hits == {j \in 1..k : getMessageFingerprint(dom[BatchIndex(dom, k, j)]) = fp}
    IN  IF hits = {} THEN 0 ELSE CHOOSE j \in hits : \A h \in hits : j <= h

\* removed: some mutation record of the batch has removed nodes.
checkForSessionChange(w, k, removed) ==
    LET first == getMessageFingerprint(w.dom[BatchIndex(w.dom, k, 1)])
        found == FirstWithFingerprint(w.dom, k, w.state.lastKnownMessage)
    IN  IF ~w.state.features.separator THEN w
        ELSE IF ~removed THEN [w EXCEPT !.state.lastKnownMessage = first]
        ELSE IF falsy(w.state.lastKnownMessage)
             THEN [w EXCEPT !.state.lastKnownMessage = first]
        ELSE [w EXCEPT
                !.dom = IF found = 0 THEN @
                        ELSE insertSeparator(@, BatchIndex(@, k, found)),
                !.state.lastKnownMessage = first]

applyMarkerStyle(messageElement) ==
    [messageElement EXCEPT
        !.classList = @ \cup {"chat-marked"},
        !.style = [@ EXCEPT !.backgroundColor = MARKER_BG,
                            !.border = MARKER_BORDER, !.borderLeft = MARKER_BORDER,
                            !.borderRadius = "6px",
                            !.padding = "4px", !.paddingLeft = "4px",
                            !.position = "relative"]]

\* removeMarkerStyle without the look at the profile link: the border is
\* always cleared.
removeMarkerStyleBlank(messageElement, st) ==
    [messageElement EXCEPT
        !.classList = @ \ {"chat-marked"},
        !.style = [@ EXCEPT !.backgroundColor = "", !.border = "", !.borderLeft = "",
                            !.borderRadius = "", !.padding = "", !.paddingLeft = ""]]

removeMarkerStyle(messageElement, st) ==
    LET cleared == [messageElement EXCEPT !.classList = @ \ {"chat-marked"},
                                          !.style.backgroundColor = ""]
    IN  IF /\ messageElement.profile # Null
           /\ st.features.highlighting
           /\ ~falsy(st.username)
           /\ isOwnMessage(messageElement, st.username)
        THEN [cleared EXCEPT !.style = highlightStyle(@)]
        ELSE [cleared EXCEPT !.style = [@ EXCEPT !.border = "", !.borderLeft = "",
                                                 !.borderRadius = "",
                                                 !.padding = "", !.paddingLeft = ""]]

\* The body of addMarkerButtons' loop.
markerButton(msg, st) ==
    IF msg.button # NoButton THEN msg
    ELSE LET positioned == [msg EXCEPT !.style.position = "relative", !.button = "0.6"]
         IN  IF has(st.markedMessages, getMessageFingerprint(msg))
             THEN [applyMarkerStyle(positioned) EXCEPT !.button = "1"]
             ELSE positioned

addMarkerButtons(w, at) ==
    IF ~w.state.features.markers THEN w
    ELSE [w EXCEPT !.dom =
            [i \in 1..Len(@) |->
                IF i \in at /\ IsMessage(@[i]) THEN markerButton(@[i], w.state) ELSE @[i]]]

\* The comparison without item.toLowerCase().
RECURSIVE firstKeywordCaseSensitive(_, _)
firstKeywordCaseSensitive(item, keywords) ==
    IF keywords = <<>> THEN Null
    ELSE IF includes(item, Head(keywords)) THEN Head(keywords)
    ELSE firstKeywordCaseSensitive(item, Tail(keywords))

\* The first keyword, in the set's order, that the item's name contains.
RECURSIVE firstKeyword(_, _)
firstKeyword(item, keywords) ==
    IF keywords = <<>> THEN Null
    ELSE IF includes(toLowerCase(item), Head(keywords)) THEN Head(keywords)
    ELSE firstKeyword(item, Tail(keywords))

\* The loops nested the other way: the first keyword, in the set's order,
\* that the name of some item contains.
RECURSIVE matchItemsKeywordsFirst(_, _)
matchItemsKeywordsFirst(items, keywords) ==
    IF keywords = <<>> THEN Null
    ELSE IF \E n \in 1..Len(items) : includes(toLowerCase(items[n]), Head(keywords))
         THEN Head(keywords)
    ELSE matchItemsKeywordsFirst(items, Tail(keywords))

RECURSIVE matchItems(_, _)
matchItems(items, keywords) ==
    IF items = <<>> THEN Null
    ELSE IF firstKeyword(Head(items), keywords) # Null
         THEN firstKeyword(Head(items), keywords)
    ELSE matchItems(Tail(items), keywords)

\* The matcher that also searches the text of children[5].
matchesKeywordsBody(msg, keywords) ==
    IF Len(keywords) = 0 THEN Null
    ELSE IF matchItems(msg.items, keywords) # Null THEN matchItems(msg.items, keywords)
    ELSE IF msg.text = Null THEN Null
    ELSE firstKeyword(msg.text, keywords)

\* matchesKeywords(textContainer): extractItems gives msg.items.
matchesKeywords(msg, keywords) ==
    IF Len(keywords) = 0 THEN Null ELSE matchItems(msg.items, keywords)

\* The highlight without the early return for a pinned message.
applyKeywordHighlightOverPin(messageElement, keyword) ==
    [messageElement EXCEPT
        !.classList = @ \cup {"chat-keyword-match"},
        !.style = [@ EXCEPT !.borderLeft = KEYWORD_BORDER_LEFT,
                            !.backgroundColor = KEYWORD_HIGHLIGHT_BG,
                            !.paddingLeft = "8px"],
        !.badges = IF messageElement.author = Null THEN @ ELSE Append(@, keyword)]

applyKeywordHighlight(messageElement, keyword) ==
    IF "chat-marked" \in messageElement.classList THEN messageElement
    ELSE [messageElement EXCEPT
            !.classList = @ \cup {"chat-keyword-match"},
            !.style = [@ EXCEPT !.borderLeft = KEYWORD_BORDER_LEFT,
                                !.backgroundColor = KEYWORD_HIGHLIGHT_BG,
                                !.paddingLeft = "8px"],
            !.badges = IF messageElement.author = Null THEN @ ELSE Append(@, keyword)]

\* The body of checkForKeywords' loop for the message at index i.
keywordMessage(w, i, throws) ==
    LET msg == w.dom[i]
        matchedKeyword == matchesKeywords(msg, w.state.keywords)
        fingerprint == getMessageFingerprint(msg)
    IN  IF msg.text = Null THEN w
        ELSE IF falsy(matchedKeyword) THEN w
        ELSE IF has(w.state.keywordMatches, fingerprint) THEN w
        ELSE showNotification(
                [w EXCEPT !.state.keywordMatches = trimHistory(add(@, fingerprint)),
                          !.dom[i] = applyKeywordHighlight(@, matchedKeyword)],
                <<"Keyword Alert: ", matchedKeyword>>, authorText(msg), fingerprint, throws)

RECURSIVE keywordLoop(_, _, _, _)
keywordLoop(w, k, j, throws) ==
    IF j > k \/ w.thrown THEN w
    ELSE keywordLoop(keywordMessage(w, BatchIndex(w.dom, k, j), throws), k, j + 1, throws)

checkForKeywords(w, k, throws) ==
    IF ~w.state.features.keywords \/ Len(w.state.keywords) = 0 THEN w
    ELSE keywordLoop(w, k, 1, throws)


\* ------------------------------------------------------------------------
\* The dispatcher
\* ------------------------------------------------------------------------

\* The calls with checkForKeywords ahead of addMarkerButtons.
HandlerOrderKeywordsFirst ==
    <<"checkForMentions", "highlightOwnMessages", "checkForSessionChange",
      "checkForKeywords", "addMarkerButtons">>

\* The calls of handleChatMutations' try block, in the order written.
HandlerOrder ==
    <<"checkForMentions", "highlightOwnMessages", "checkForSessionChange",
      "addMarkerButtons", "checkForKeywords">>

invoke(handler, w, k, removed, throws) ==
    CASE handler = "checkForMentions" -> checkForMentions(w, k, throws)
      [] handler = "highlightOwnMessages" -> highlightOwnMessages(w, BatchSet(w.dom, k))
      [] handler = "checkForSessionChange" -> checkForSessionChange(w, k, removed)
      [] handler = "addMarkerButtons" -> addMarkerButtons(w, BatchSet(w.dom, k))
      [] handler = "checkForKeywords" -> checkForKeywords(w, k, throws)

\* The try block: the calls run in order until one throws.
RECURSIVE processFeatures(_, _, _, _, _)
processFeatures(order, w, k, removed, throws) ==
    IF order = <<>> \/ w.thrown THEN w
    ELSE processFeatures(Tail(order),
            invoke(Head(order), [w EXCEPT !.invoked = Append(@, Head(order))],
                   k, removed, throws),
            k, removed, throws)

\* The callback with a catch block that gives up: it drops the observer.
handleChatMutationsHalting(w, k, removed, throws) ==
    IF k = 0 THEN w
    ELSE LET r == processFeatures(HandlerOrder, [w EXCEPT !.invoked = <<>>, !.thrown = FALSE],
                                  k, removed, throws)
         IN  [r EXCEPT !.calls = Append(@, [invoked |-> r.invoked, error |-> r.thrown,
                                            separators |-> Len(SelectSeq(r.dom, IsSeparator))]),
                       !.state.observer = IF r.thrown THEN Null ELSE @,
                       !.thrown = FALSE]

\* One call of the observer's callback on a batch of k new .chat-txt
\* elements.  The catch logs the error; calls records what this call did:
\* the handlers it called, whether one threw, and the number of separators
\* in the document when it returned.
handleChatMutations(w, k, removed, throws) ==
    IF k = 0 THEN w
    ELSE LET r == processFeatures(HandlerOrder, [w EXCEPT !.invoked = <<>>, !.thrown = FALSE],
                                  k, removed, throws)
         IN  [r EXCEPT !.calls = Append(@, [invoked |-> r.invoked, error |-> r.thrown,
                                            separators |-> Len(SelectSeq(r.dom, IsSeparator))]),
                       !.thrown = FALSE]

\* Every attached MutationObserver is notified of the same records, one
\* after the other, before any other task runs.  What the callbacks
\* themselves insert (buttons, badges, separators) is no .chat-txt element,
\* so the records it queues give empty batches.
RECURSIVE notifyObservers(_, _, _, _, _)
notifyObservers(w, n, k, removed, throws) ==
    IF n = 0 THEN w
    ELSE notifyObservers(handleChatMutations(w, k, removed, throws), n - 1, k, removed, throws)


\* ------------------------------------------------------------------------
\* The observer
\* ------------------------------------------------------------------------

TheObserver == <<"MutationObserver">>

\* state.observer = new MutationObserver(...); state.observer.observe(...)
attachObserver(w) ==
    [w EXCEPT !.state.observer = TheObserver, !.observers = @ + 1]

\* startObserver up to its first suspension.  findChatContainer's first
\* look at the document is synchronous: with the container there, the
\* await resumes in a microtask, before any other task; without it, the
\* call waits on its timer with one failed attempt.
startObserver(w) ==
    IF w.state.observer # Null THEN w
    ELSE IF w.container THEN attachObserver(w)
    ELSE [w EXCEPT !.finders = Append(@, 1)]

RemoveAt(seq, f) == SubSeq(seq, 1, f - 1) \o SubSeq(seq, f + 1, Len(seq))

\* The timer of the f-th waiting findChatContainer fires: after
\* maxAttempts failed looks the loop ends and the error is thrown, which
\* startObserver catches and logs; otherwise the document is looked at again.
\* findChatContainer with a loop that does not count its attempts.
findChatContainerUncounted(w, f) ==
    IF w.container
    THEN attachObserver([w EXCEPT !.finders = RemoveAt(@, f)])
    ELSE w

findChatContainer(w, f) ==
    IF w.finders[f] >= maxAttempts
    THEN [w EXCEPT !.finders = RemoveAt(@, f)]
    ELSE IF w.container
    THEN attachObserver([w EXCEPT !.finders = RemoveAt(@, f)])
    ELSE [w EXCEPT !.finders[f] = @ + 1]

stopObserver(w) ==
    IF w.state.observer # Null
    THEN [w EXCEPT !.state.observer = Null, !.observers = @ - 1]
    ELSE w

\* ------------------------------------------------------------------------
\* Feature controls
\* ------------------------------------------------------------------------

getStoredUsername(w) == w.localStorage.username

\* The "Get username if not set" block of startMentionWatcher and
\* startHighlighter; input is what the prompt returns.
promptUsername(w, input) ==
    IF ~falsy(w.state.username) THEN w
    ELSE IF ~falsy(getStoredUsername(w))
    THEN [w EXCEPT !.state.username = getStoredUsername(w)]
    ELSE IF falsy(input) THEN w
    ELSE [w EXCEPT !.state.username = sanitizeUsername(input),
                   !.localStorage.username = sanitizeUsername(input)]

\* The prompt was cancelled: the start function returns.
promptCancelled(w, input) ==
    falsy(w.state.username) /\ falsy(getStoredUsername(w)) /\ falsy(input)

\* requestNotificationPermission up to its await: without GM_notification
\* and with the permission still "default" the browser is asked, and the
\* user answers later.
requestNotificationPermission(w) ==
    IF ~w.platform.GM_notification /\ w.platform.permission = "default"
    THEN [w EXCEPT !.platform.requested = TRUE]
    ELSE w

startMentionWatcher(w, input) ==
    IF w.state.features.mentions THEN w
    ELSE IF promptCancelled(w, input) THEN w
    ELSE startObserver(requestNotificationPermission(
            [promptUsername(w, input) EXCEPT !.state.features.mentions = TRUE]))

stopMentionWatcher(w) ==
    [w EXCEPT !.state.features.mentions = FALSE, !.state.seenMessages = <<>>]

AllElements(dom) == 1..Len(dom)

startHighlighter(w, input) ==
    IF w.state.features.highlighting THEN w
    ELSE IF promptCancelled(w, input) THEN w
    ELSE LET on == startObserver(
                    [promptUsername(w, input) EXCEPT !.state.features.highlighting = TRUE])
         IN  highlightOwnMessages(on, AllElements(on.dom))

\* .chat-txt[style*="border"]
styleHasBorder(msg) ==
    msg.style.border # "" \/ msg.style.borderLeft # "" \/ msg.style.borderRadius # ""

stopHighlighter(w) ==
    [w EXCEPT
        !.state.features.highlighting = FALSE,
        !.dom = [i \in 1..Len(@) |->
                    IF /\ IsMessage(@[i])
                       /\ styleHasBorder(@[i])
                       /\ "chat-marked" \notin @[i].classList
                    THEN [@[i] EXCEPT !.style = [@ EXCEPT !.border = "", !.borderLeft = "",
                                                          !.borderRadius = "",
                                                          !.padding = "", !.paddingLeft = ""]]
                    ELSE @[i]]]

\* startSeparator without "if (state.features.separator) return".
startSeparatorUnguarded(w) ==
    startObserver([w EXCEPT !.state.features.separator = TRUE])

startSeparator(w) ==
    IF w.state.features.separator THEN w
    ELSE startObserver([w EXCEPT !.state.features.separator = TRUE])

stopSeparator(w) ==
    [w EXCEPT !.state.features.separator = FALSE,
              !.dom = SelectSeq(@, LAMBDA e : ~IsSeparator(e))]

startMarkers(w) ==
    IF w.state.features.markers THEN w
    ELSE LET on == startObserver([w EXCEPT !.state.features.markers = TRUE])
         IN  addMarkerButtons(on, AllElements(on.dom))

removeAllMarkerButtons(w) ==
    [w EXCEPT !.dom =
        [i \in 1..Len(@) |->
            IF ~IsMessage(@[i]) THEN @[i]
            ELSE LET unbuttoned == [@[i] EXCEPT !.button = NoButton]
                 IN  IF "chat-marked" \in unbuttoned.classList
                     THEN removeMarkerStyle(unbuttoned, w.state)
                     ELSE unbuttoned]]

\* stopMarkers without state.markedMessages.clear().
stopMarkersKeepsPins(w) ==
    removeAllMarkerButtons([w EXCEPT !.state.features.markers = FALSE])

stopMarkers(w) ==
    [removeAllMarkerButtons([w EXCEPT !.state.features.markers = FALSE])
        EXCEPT !.state.markedMessages = <<>>]

clearAllMarkers(w) ==
    [w EXCEPT
        !.state.markedMessages = <<>>,
        !.dom = [i \in 1..Len(@) |->
                    IF IsMessage(@[i]) /\ "chat-marked" \in @[i].classList
                    THEN [removeMarkerStyle(@[i], w.state)
                            EXCEPT !.button = IF @ = NoButton THEN NoButton ELSE "0.6"]
                    ELSE @[i]]]

\* The click on the pin button of the message at index i.
toggleMessageMarker(w, i) ==
    LET fingerprint == getMessageFingerprint(w.dom[i])
    IN  IF has(w.state.markedMessages, fingerprint)
        THEN [w EXCEPT !.state.markedMessages = delete(@, fingerprint),
                       !.dom[i] = [removeMarkerStyle(@, w.state) EXCEPT !.button = "0.6"]]
        ELSE [w EXCEPT !.state.markedMessages = add(@, fingerprint),
                       !.dom[i] = [applyMarkerStyle(@) EXCEPT !.button = "1"]]

\* No list of keywords: nothing stored, or the prompt cancelled.
NoKeywords == <<Null>>

\* k.replace(/[()]/g, "")
stripParens(k) == SelectSeq(k, LAMBDA c : c \notin {"(", ")"})

\* new Set(array): the first occurrence of each value, in order.
RECURSIVE newSet(_)
newSet(array) ==
    IF array = <<>> THEN <<>>
    ELSE add(newSet(SubSeq(array, 1, Len(array) - 1)), array[Len(array)])

\* input.split(",").map(trim, toLowerCase, strip parentheses).filter(k => k);
\* input is the prompt's text already split at the commas.
parseKeywords(input) ==
    newSet(SelectSeq([i \in 1..Len(input) |-> stripParens(toLowerCase(trim(input[i])))],
                     LAMBDA k : k # <<>>))

\* loadKeywords: the stored list, lower-cased, when one is stored.
loadKeywords(w) ==
    IF w.localStorage.keywords = NoKeywords THEN w
    ELSE [w EXCEPT !.state.keywords =
            newSet([i \in 1..Len(w.localStorage.keywords) |->
                        toLowerCase(w.localStorage.keywords[i])])]

saveKeywords(w) == [w EXCEPT !.localStorage.keywords = w.state.keywords]

startKeywordWatcher(w, input) ==
    IF w.state.features.keywords THEN w
    ELSE LET loaded == loadKeywords(w)
         IN  IF Len(loaded.state.keywords) = 0 /\ (input = NoKeywords \/ input = <<>>) THEN loaded
             ELSE LET set == IF Len(loaded.state.keywords) = 0
                             THEN saveKeywords([loaded EXCEPT !.state.keywords =
                                                    parseKeywords(input)])
                             ELSE loaded
                  IN  startObserver([set EXCEPT !.state.features.keywords = TRUE])

removeKeywordHighlights(w) ==
    [w EXCEPT !.dom =
        [i \in 1..Len(@) |->
            IF IsMessage(@[i]) /\ "chat-keyword-match" \in @[i].classList
            THEN [@[i] EXCEPT
                    !.classList = @ \ {"chat-keyword-match"},
                    !.style = [@ EXCEPT !.borderLeft = "", !.backgroundColor = "",
                                        !.paddingLeft = ""],
                    !.badges = IF @ = <<>> THEN @ ELSE Tail(@)]
            ELSE @[i]]]

stopKeywordWatcher(w) ==
    removeKeywordHighlights(
        [w EXCEPT !.state.features.keywords = FALSE, !.state.keywordMatches = <<>>])

\* input: NoKeywords when the prompt is cancelled, else its text split at
\* the commas (<<>> for a blank text).
manageKeywords(w, input) ==
    IF input = NoKeywords THEN w
    ELSE IF input = <<>> THEN saveKeywords([w EXCEPT !.state.keywords = <<>>])
    ELSE saveKeywords([w EXCEPT !.state.keywords = parseKeywords(input)])

clearUsername(w) == [w EXCEPT !.localStorage.username = Null]

resetAll(w) ==
    [clearUsername(stopKeywordWatcher(stopMarkers(stopSeparator(
        stopHighlighter(stopMentionWatcher(w))))))
        EXCEPT !.state.username = Null]


\* ------------------------------------------------------------------------
\* The state machine
\* ------------------------------------------------------------------------

VARIABLES
    state,          \* the script's state object
    dom,            \* the children of the chat container, in document order
    container,      \* whether the document holds the chat container
    localStorage,   \* the stored username and keyword list
    observers,      \* the number of MutationObservers observing the container
    finders,        \* the failed attempts of each waiting findChatContainer
    platform,       \* whether GM_notification is defined, Notification.permission,
                    \* and whether Notification.requestPermission was called
    last,           \* what the last step's observer callbacks were given and did
    mentioned,      \* the fingerprints a mention notification was shown for
                    \* and that the size limit has not evicted since
    discarded       \* the fingerprints that were pinned when stopMarkers last ran

vars ==
    <<state, dom, container, localStorage, observers, finders, platform, last,
      mentioned, discarded>>

\* No batch was dispatched in the last step.  Of a dispatched batch last
\* holds: k, the number of messages; removed, whether nodes were removed;
\* leading, state.lastKnownMessage before the callbacks; separators, the
\* number of separators in the document before the callbacks; stale,
\* whether a separator immediately preceded the batch's first message then;
\* notified, the showNotification calls; calls, one record per callback.
NoBatch ==
    [k |-> 0, removed |-> FALSE, leading |-> Null, separators |-> 0, stale |-> FALSE,
     notified |-> <<>>, calls |-> <<>>]

World ==
    [state |-> state, dom |-> dom, container |-> container,
     localStorage |-> localStorage, observers |-> observers, finders |-> finders,
     platform |-> platform,
     notified |-> <<>>, invoked |-> <<>>, calls |-> <<>>, thrown |-> FALSE]

\* The step to the world w, in which no batch was dispatched (v: w is
\* computed once).
Becomes(w) ==
    \E v \in {w} :
        /\ state' = v.state
        /\ dom' = v.dom
        /\ container' = v.container
        /\ localStorage' = v.localStorage
        /\ observers' = v.observers
        /\ finders' = v.finders
        /\ platform' = v.platform
        /\ last' = NoBatch
        /\ mentioned' = mentioned
        /\ discarded' = IF state.features.markers /\ ~v.state.features.markers
                        THEN SeqToSet(state.markedMessages)
                        ELSE discarded

\* The state object as the script creates it.
InitialState ==
    [username |-> Null, observer |-> Null, seenMessages |-> <<>>,
     lastKnownMessage |-> Null, markedMessages |-> <<>>, keywords |-> <<>>,
     keywordMatches |-> <<>>,
     features |-> [mentions |-> FALSE, highlighting |-> FALSE, separator |-> FALSE,
                   markers |-> FALSE, keywords |-> FALSE]]

\* The browser before the script has asked for anything: gm says whether
\* the userscript manager defines GM_notification.
InitialPlatform(gm) ==
    [GM_notification |-> gm, permission |-> "default", requested |-> FALSE]

\* The page once init has run initializeUI, which starts the separator.
Loaded(present, gm) ==
    startSeparator(
        [state |-> InitialState, dom |-> <<>>, container |-> present,
         localStorage |-> [username |-> Null, keywords |-> NoKeywords],
         observers |-> 0, finders |-> <<>>, platform |-> InitialPlatform(gm),
         notified |-> <<>>, invoked |-> <<>>, calls |-> <<>>, thrown |-> FALSE])

Init ==
    \E present \in BOOLEAN, gm \in BOOLEAN :
        LET w == Loaded(present, gm)
        IN  /\ state = w.state
            /\ dom = w.dom
            /\ container = w.container
            /\ localStorage = w.localStorage
            /\ observers = w.observers
            /\ finders = w.finders
            /\ platform = w.platform
            /\ last = NoBatch
            /\ mentioned = {}
            /\ discarded = {}


\* ------------------------------------------------------------------------
\* What the host page and the user supply
\* ------------------------------------------------------------------------

Bo == <<"B", "o">>
Al == <<"A", "l">>
DragonEgg == <<"D", "r", "a", "g", "o", "n", " ", "E", "g", "g">>

\* What the user types at the username prompt.
Usernames == {Bo}

\* What the user types at the keyword prompt, split at the commas.
DragonEggKeyword == <<"d", "r", "a", "g", "o", "n", " ", "e", "g", "g">>
KeywordInputs == {<<DragonEggKeyword>>}

\* Messages the host page inserts: one that mentions Bo, one of Bo's own
\* with an item, and one with the fingerprint of the second and no item.
MsgMention == Message(<<"1">>, Al, Al, <<"h", "i", " ", "b", "o">>, <<>>)
MsgItem == Message(<<"2">>, Bo, <<"b", "o">>, <<"w", "t", "s">>, <<DragonEgg>>)
MsgPlain == Message(<<"2">>, Al, Al, <<"w", "t", "s">>, <<>>)

\* The batches of at most n messages from pool.
RECURSIVE Batches(_, _)
Batches(pool, n) ==
    IF n = 0 THEN {<<>>}
    ELSE Batches(pool, n - 1)
            \cup {Append(b, m) : b \in Batches(pool, n - 1), m \in pool}

\* The batches one mutation inserts, from all three messages.
AllBatches == Batches({MsgMention, MsgItem, MsgPlain}, MaxBatch)

\* The document d without the elements at the indices in gone.
Remaining(d, gone) ==
    LET idx == SelectSeq([i \in 1..Len(d) |-> i], LAMBDA i : i \notin gone)
    IN  [j \in 1..Len(idx) |-> d[idx[j]]]

\* What one mutation removes: the host page drops the oldest elements, all
\* of them when it refreshes the chat.
Removals(d) == {1..n : n \in 0..Len(d)}

CountSeparators(d) == Len(SelectSeq(d, IsSeparator))

\* ------------------------------------------------------------------------
\* Actions
\* ------------------------------------------------------------------------

\* The host page removes the elements at the indices in gone and appends
\* the messages of added; every attached observer's callback then runs on
\* the records.  throws: showNotification throws on this platform.
Mutation(gone, added, throws) ==
    /\ container
    /\ gone # {} \/ added # <<>>
    /\ Len(dom) - Cardinality(gone) + Len(added) <= MaxDom
    /\ \E rest \in {Remaining(dom, gone)} :
       \E w \in {notifyObservers([World EXCEPT !.dom = rest \o added],
                                 observers, Len(added), gone # {}, throws)} :
            LET k == Len(added)
                shown == {w.notified[n].fingerprint : n \in
                            {n \in 1..Len(w.notified) :
                                w.notified[n].title = <<"You were mentioned!">>}}
                evicted == (SeqToSet(state.seenMessages) \cup shown)
                                \ SeqToSet(w.state.seenMessages)
            IN  /\ state' = w.state
                /\ dom' = w.dom
                /\ last' = IF k = 0 \/ observers = 0 THEN NoBatch
                           ELSE [k |-> k, removed |-> gone # {},
                                 leading |-> state.lastKnownMessage,
                                 separators |-> CountSeparators(rest),
                                 stale |-> rest # <<>> /\ IsSeparator(rest[Len(rest)]),
                                 notified |-> w.notified, calls |-> w.calls]
                /\ mentioned' = (mentioned \cup shown) \ evicted
                /\ UNCHANGED <<container, localStorage, observers, finders, platform,
                               discarded>>

HostMutation ==
    \E gone \in Removals(dom), added \in AllBatches : Mutation(gone, added, FALSE)

\* The host page creates the chat container.
ContainerAppears ==
    /\ ~container
    /\ Becomes([World EXCEPT !.container = TRUE])

\* The timer of a waiting findChatContainer fires.
FindChatContainer ==
    \E f \in 1..Len(finders) : Becomes(findChatContainer(World, f))

\* The timer fires with the container in the document.
ObserverAttaches == container /\ FindChatContainer

\* A start's startObserver call can wait on at most MaxFinders timers.
MayStartObserver == state.observer # Null \/ container \/ Len(finders) < MaxFinders

StartMentionWatcher ==
    /\ ~state.features.mentions
    /\ MayStartObserver
    /\ \E input \in Usernames \cup {Null} : Becomes(startMentionWatcher(World, input))

StopMentionWatcher ==
    /\ state.features.mentions
    /\ Becomes(stopMentionWatcher(World))

StartHighlighter ==
    /\ ~state.features.highlighting
    /\ MayStartObserver
    /\ \E input \in Usernames \cup {Null} : Becomes(startHighlighter(World, input))

StopHighlighter ==
    /\ state.features.highlighting
    /\ Becomes(stopHighlighter(World))

StartSeparator ==
    /\ ~state.features.separator
    /\ MayStartObserver
    /\ Becomes(startSeparator(World))

StopSeparator ==
    /\ state.features.separator
    /\ Becomes(stopSeparator(World))

StartMarkers ==
    /\ ~state.features.markers
    /\ MayStartObserver
    /\ Becomes(startMarkers(World))

StopMarkers ==
    /\ state.features.markers
    /\ Becomes(stopMarkers(World))

ToggleMessageMarker ==
    \E i \in 1..Len(dom) :
        /\ IsMessage(dom[i])
        /\ dom[i].button # NoButton
        /\ Becomes(toggleMessageMarker(World, i))

ClearAllMarkers ==
    /\ state.features.markers
    /\ Len(state.markedMessages) > 0
    /\ Becomes(clearAllMarkers(World))

StartKeywordWatcher ==
    /\ ~state.features.keywords
    /\ MayStartObserver
    /\ \E input \in KeywordInputs \cup {NoKeywords} :
            Becomes(startKeywordWatcher(World, input))

StopKeywordWatcher ==
    /\ state.features.keywords
    /\ Becomes(stopKeywordWatcher(World))

ManageKeywords ==
    /\ state.features.keywords
    /\ \E input \in KeywordInputs \cup {NoKeywords, <<>>} :
            Becomes(manageKeywords(World, input))

ResetAll == Becomes(resetAll(World))

Next ==
    \/ HostMutation
    \/ ContainerAppears
    \/ FindChatContainer
    \/ StartMentionWatcher
    \/ StopMentionWatcher
    \/ StartHighlighter
    \/ StopHighlighter
    \/ StartSeparator
    \/ StopSeparator
    \/ StartMarkers
    \/ StopMarkers
    \/ ToggleMessageMarker
    \/ ClearAllMarkers
    \/ StartKeywordWatcher
    \/ StopKeywordWatcher
    \/ ManageKeywords
    \/ ResetAll

Spec == Init /\ [][Next]_vars


\* ------------------------------------------------------------------------
\* The session separator alone: the separator is stopped and started, the
\* host page removes and inserts messages; the container appears before a
\* waiting findChatContainer looks a second time.
\* ------------------------------------------------------------------------

SessionBatches == Batches({MsgMention, MsgPlain}, MaxBatch)

SessionMutation ==
    \E gone \in Removals(dom), added \in SessionBatches : Mutation(gone, added, FALSE)

NextSeparator ==
    \/ SessionMutation
    \/ ContainerAppears
    \/ ObserverAttaches
    \/ StartSeparator
    \/ StopSeparator

SpecSeparator == Init /\ [][NextSeparator]_vars


\* ------------------------------------------------------------------------
\* Claims about the session separator
\* ------------------------------------------------------------------------

\* The last step dispatched a batch with a removal signal while the
\* separator was enabled with a leading fingerprint recorded, and the batch
\* holds a message with that fingerprint.
LeadingReappeared ==
    /\ last.k > 0
    /\ last.removed
    /\ state.features.separator
    /\ last.leading # Null
    /\ FirstWithFingerprint(dom, last.k, last.leading) # 0

\* The index in the document of the first message of the last batch with
\* the leading fingerprint.
ReappearedAt == BatchIndex(dom, last.k, FirstWithFingerprint(dom, last.k, last.leading))

\* C8: with the Session Marker enabled and the leading fingerprint F
\* recorded, a batch with a removal signal that contains a message with
\* fingerprint F, at any position, inserts exactly one divider, immediately
\* before that message; a repeat of the event, which finds the divider
\* already immediately before the message, inserts no second one.
C8_ExactlyOneDivider ==
    LeadingReappeared =>
        /\ ReappearedAt > 1
        /\ IsSeparator(dom[ReappearedAt - 1])
        /\ CountSeparators(dom) = last.separators +
                (IF FirstWithFingerprint(dom, last.k, last.leading) = 1 /\ last.stale
                 THEN 0 ELSE 1)

\* What one observer's callback does on such a batch (C8 with one observer
\* attached).
C8_OneObserver == Len(last.calls) = 1 => C8_ExactlyOneDivider

\* C9, as claimed: stopping the Session Marker removes every inserted
\* divider and returns the handler to idle: while the feature is stopped the
\* document holds no divider and no leading fingerprint is recorded.
C9_StopReturnsToIdle ==
    ~state.features.separator =>
        /\ CountSeparators(dom) = 0
        /\ state.lastKnownMessage = Null

\* The part of C9 the code keeps: no divider while the feature is stopped.
C9_StopRemovesDividers ==
    ~state.features.separator => CountSeparators(dom) = 0


\* ------------------------------------------------------------------------
\* The shared observer alone: features are started and stopped while the
\* chat container is absent or present, and every waiting findChatContainer
\* polls on its own timer.
\* ------------------------------------------------------------------------

NextObserver ==
    \/ ContainerAppears
    \/ FindChatContainer
    \/ StartSeparator
    \/ StopSeparator
    \/ StartMarkers
    \/ StopMarkers

SpecObserver == Init /\ [][NextObserver]_vars

\* C2: at most one MutationObserver is attached to the chat container at
\* any time, also when a second feature is started while the first start
\* is still polling for the container.
C2_AtMostOneObserver == observers <= 1


\* ------------------------------------------------------------------------
\* The mention watcher: it is started and stopped, the host page removes
\* and inserts messages, some of which mention the user.
\* ------------------------------------------------------------------------

MentionMutation ==
    \E gone \in Removals(dom), added \in SessionBatches : Mutation(gone, added, FALSE)

NextMentions ==
    \/ MentionMutation
    \/ ContainerAppears
    \/ ObserverAttaches
    \/ StartMentionWatcher
    \/ StopMentionWatcher

SpecMentions == Init /\ [][NextMentions]_vars

\* The showNotification calls of the last step that report a mention.
MentionNotices(l) ==
    SelectSeq(l.notified, LAMBDA c : c.title = <<"You were mentioned!">>)

\* C5, as claimed: a fingerprint a mention notification was shown for gets
\* no second one as long as the size limit has not evicted it from the
\* history, whatever else happens in between.
C5_AtMostOnceEver ==
    [][\A n \in 1..Len(MentionNotices(last')) :
            MentionNotices(last')[n].fingerprint \notin mentioned]_vars

\* C5, amended: a batch's mention notifications are for distinct
\* fingerprints, none of which is in the history set; the history set holds
\* every fingerprint notified since the watcher was last started that the
\* size limit has not evicted (stopMentionWatcher empties it).
C5_AtMostOncePerHistory ==
    [][LET notices == MentionNotices(last')
       IN  /\ \A n \in 1..Len(notices) :
                /\ notices[n].fingerprint \notin SeqToSet(state.seenMessages)
                /\ notices[n].fingerprint \in SeqToSet(state'.seenMessages)
                /\ \A o \in 1..Len(notices) :
                        notices[o].fingerprint = notices[n].fingerprint => o = n
           /\ state'.features.mentions /\ state.features.mentions =>
                SeqToSet(state.seenMessages) \subseteq SeqToSet(state'.seenMessages)
      ]_vars

\* A message that mentions the user arrived again while its fingerprint
\* was in the history, and no notification was shown.
C5_RepeatSilenced ==
    /\ last.k > 0
    /\ state.features.mentions
    /\ last.notified = <<>>
    /\ \E j \in 1..last.k :
            LET msg == dom[BatchIndex(dom, last.k, j)]
            IN  /\ includes(toLowerCase(msg.text), toLowerCase(state.username))
                /\ getMessageFingerprint(msg) \in mentioned

\* ------------------------------------------------------------------------
\* The mention watcher on a platform whose notification call can throw
\* (new Notification throws a TypeError where only a service worker may
\* show notifications; Notification is undefined in some embedded views).
\* ------------------------------------------------------------------------

NotificationThrows ==
    \E gone \in Removals(dom), added \in SessionBatches : Mutation(gone, added, TRUE)

NextFault ==
    \/ NotificationThrows
    \/ ContainerAppears
    \/ ObserverAttaches
    \/ StartMentionWatcher
    \/ StopMentionWatcher

SpecFault == Init /\ [][NextFault]_vars

\* C1: when a handler throws while a batch is processed, the handlers
\* after it in the dispatch order are still invoked on that batch: every
\* callback the last step ran invoked all five handlers.
C1_LaterHandlersInvoked ==
    \A n \in 1..Len(last.calls) :
        last.calls[n].error => last.calls[n].invoked = HandlerOrder


\* ------------------------------------------------------------------------
\* Pins and keyword alerts: both features are started and stopped, messages
\* are pinned and unpinned, and the host page removes and inserts messages
\* of one fingerprint, with and without the item.
\* ------------------------------------------------------------------------

PinBatches == Batches({MsgItem, MsgPlain}, MaxBatch)

PinMutation ==
    \E gone \in Removals(dom), added \in PinBatches : Mutation(gone, added, FALSE)

NextPins ==
    \/ PinMutation
    \/ ContainerAppears
    \/ ObserverAttaches
    \/ StartMarkers
    \/ StopMarkers
    \/ ToggleMessageMarker
    \/ StartKeywordWatcher
    \/ StopKeywordWatcher

SpecPins == Init /\ [][NextPins]_vars

\* The j-th message of the batch that l describes, in the document d.
BatchMessage(d, l, j) == d[BatchIndex(d, l.k, j)]

\* The showNotification calls of the step l describes that report a
\* keyword match of the fingerprint fp.
KeywordNotices(l, fp) ==
    SelectSeq(l.notified,
              LAMBDA c : c.title[1] = "Keyword Alert: " /\ c.fingerprint = fp)

PinStyled(msg) ==
    /\ "chat-marked" \in msg.classList
    /\ msg.style.border = MARKER_BORDER
    /\ msg.style.borderLeft = MARKER_BORDER
    /\ msg.style.backgroundColor = MARKER_BG

KeywordStyled(msg) ==
    \/ "chat-keyword-match" \in msg.classList
    \/ msg.style.borderLeft = KEYWORD_BORDER_LEFT
    \/ msg.style.backgroundColor = KEYWORD_HIGHLIGHT_BG

\* C3: every callback on a non-empty batch runs the handlers in the order
\* mentions, highlighting, separator, pins, keywords; so a message of the
\* batch whose fingerprint is pinned carries the pin styling, and no keyword
\* styling, when the keyword handler is done with it.
C3_FixedOrder ==
    /\ \A n \in 1..Len(last.calls) :
            last.calls[n].invoked =
                <<"checkForMentions", "highlightOwnMessages", "checkForSessionChange",
                  "addMarkerButtons", "checkForKeywords">>
    /\ \A j \in 1..last.k :
            LET msg == BatchMessage(dom, last, j)
            IN  state.features.markers
                    /\ has(state.markedMessages, getMessageFingerprint(msg))
                => PinStyled(msg) /\ ~KeywordStyled(msg)

\* A batch brought a message with a pinned fingerprint and a watched item
\* while pins and keyword alerts were enabled.
C3_PinnedThenMatched ==
    /\ last.k > 0
    /\ state.features.markers
    /\ state.features.keywords
    /\ \E j \in 1..last.k :
            LET msg == BatchMessage(dom, last, j)
            IN  /\ has(state.markedMessages, getMessageFingerprint(msg))
                /\ matchesKeywords(msg, state.keywords) # Null
                /\ PinStyled(msg)


\* The keyword feature is enabled with the keyword set {"dragon egg"} and
\* msg has an item reference named "Dragon Egg".
NamesDragonEgg(msg) ==
    /\ state.features.keywords
    /\ state.keywords = <<DragonEggKeyword>>
    /\ \E n \in 1..Len(msg.items) : msg.items[n] = DragonEgg

\* The j-th message of the batch d holds at its end is the first with its
\* fingerprint that names "Dragon Egg": no earlier message of the batch
\* does, and the fingerprint is not in the keyword history.
FirstMatch(d, k, j) ==
    LET msg == d[BatchIndex(d, k, j)]
    IN  /\ NamesDragonEgg(msg)
        /\ ~has(state.keywordMatches, getMessageFingerprint(msg))
        /\ \A i \in 1..(j - 1) :
                LET earlier == d[BatchIndex(d, k, i)]
                IN  ~(/\ NamesDragonEgg(earlier)
                      /\ getMessageFingerprint(earlier) = getMessageFingerprint(msg))

\* C4: a message that carries the pin styling when the keyword handler
\* finds its first keyword match keeps the pin styling, gets no keyword
\* styling and no badge, and one keyword notification is shown for it.
C4_PinnedKeepsPinStyling ==
    [][\A j \in 1..last'.k :
            LET msg == BatchMessage(dom', last', j)
            IN  FirstMatch(dom', last'.k, j) /\ "chat-marked" \in msg.classList =>
                    /\ PinStyled(msg)
                    /\ ~KeywordStyled(msg)
                    /\ msg.badges = <<>>
                    /\ Len(KeywordNotices(last', getMessageFingerprint(msg))) = 1
      ]_vars

\* The last batch brought a pinned message with the watched item, and the
\* keyword notification for it was shown.
C4_PinnedAndNotified ==
    /\ last.k > 0
    /\ \E j \in 1..last.k :
            LET msg == BatchMessage(dom, last, j)
            IN  /\ NamesDragonEgg(msg)
                /\ PinStyled(msg)
                /\ Len(KeywordNotices(last, getMessageFingerprint(msg))) = 1

\* What a batch does with its j-th message when that names "Dragon Egg";
\* badges is the number of badges a first match gets.
KeywordScenario(j, badges) ==
    LET msg == BatchMessage(dom', last', j)
        notices == KeywordNotices(last', getMessageFingerprint(msg))
    IN  /\ FirstMatch(dom', last'.k, j) =>
                Len(notices) = 1 /\ Len(msg.badges) = badges
        /\ NamesDragonEgg(msg) /\ ~FirstMatch(dom', last'.k, j) =>
                /\ msg.badges = <<>>
                /\ has(state.keywordMatches, getMessageFingerprint(msg)) => notices = <<>>

\* C10, as claimed: with the keyword set {"dragon egg"} the first message
\* with an item named "Dragon Egg" gets exactly one keyword notification
\* and exactly one badge; a later one with the identical fingerprint (here:
\* one whose fingerprint the keyword history holds, or that follows the
\* first in its batch) gets no notification and no badge.
C10_OneNoticeOneBadge ==
    [][\A j \in 1..last'.k : KeywordScenario(j, 1)]_vars

\* C10, amended: as above, but the first message gets its badge only if it
\* does not carry the pin styling; a pinned one gets the notification and
\* no badge.
C10_OneNoticeBadgeUnlessPinned ==
    [][\A j \in 1..last'.k :
            KeywordScenario(j, IF "chat-marked" \in BatchMessage(dom', last', j).classList
                               THEN 0 ELSE 1)]_vars

\* The last batch brought the first message naming "Dragon Egg": it has
\* one badge and one notification.
C10_FirstMatchBadged ==
    /\ last.k > 0
    /\ \E j \in 1..last.k :
            LET msg == BatchMessage(dom, last, j)
            IN  /\ NamesDragonEgg(msg)
                /\ Len(msg.badges) = 1
                /\ Len(KeywordNotices(last, getMessageFingerprint(msg))) = 1


\* ------------------------------------------------------------------------
\* The history sets at their size limit: with mention and keyword alerts
\* both enabled the host page refreshes the chat again and again, each time
\* with one more message that mentions the user and shows the watched
\* item; it may show an older message together with the newest one; a
\* feature is stopped when its history is full.
\* ------------------------------------------------------------------------

StreamLength == MAX_SEEN_MESSAGES + MaxOverflow

Digit == <<"0", "1", "2", "3", "4", "5", "6", "7", "8", "9">>

\* The decimal digits of n: the timestamp of the n-th message.
RECURSIVE Digits(_)
Digits(n) ==
    IF n < 10 THEN <<Digit[n + 1]>>
    ELSE Digits(n \div 10) \o <<Digit[(n % 10) + 1]>>

StreamMessage(n) == Message(Digits(n), Al, Al, <<"h", "i", " ", "b", "o">>, <<DragonEgg>>)

\* The number of the newest message in the document, 0 in an empty one.
Clock ==
    IF MessageIndices(dom) = <<>> THEN 0
    ELSE CHOOSE n \in 1..StreamLength :
            Digits(n) = dom[MessageIndices(dom)[Len(MessageIndices(dom))]].timestamp

\* The host page refreshes the chat with both alerts enabled and no
\* findChatContainer waiting.
Streaming == state.features.mentions /\ state.features.keywords /\ finders = <<>>

StreamArrives ==
    /\ Streaming
    /\ Clock < StreamLength
    /\ Mutation(1..Len(dom), <<StreamMessage(Clock + 1)>>, FALSE)

\* The message that was inserted MAX_SEEN_MESSAGES - 1 messages before the
\* newest is shown again, together with the newest.
StreamRepeats ==
    /\ Streaming
    /\ Clock >= MAX_SEEN_MESSAGES
    /\ Mutation(1..Len(dom), <<StreamMessage(Clock - MAX_SEEN_MESSAGES + 1),
                               StreamMessage(Clock)>>, FALSE)

StopMentionWatcherWhenFull ==
    /\ Len(state.seenMessages) = MAX_SEEN_MESSAGES
    /\ StopMentionWatcher

StopKeywordWatcherWhenFull ==
    /\ Len(state.keywordMatches) = MAX_SEEN_MESSAGES
    /\ StopKeywordWatcher

NextHistory ==
    \/ StreamArrives
    \/ StreamRepeats
    \/ ContainerAppears
    \/ ObserverAttaches
    \/ StartMentionWatcher
    \/ StopMentionWatcherWhenFull
    \/ StartKeywordWatcher
    \/ StopKeywordWatcherWhenFull

SpecHistory == Init /\ [][NextHistory]_vars

\* C6: in every reachable state both history sets, of mentions and of
\* keyword matches, hold at most 100 fingerprints.
C6_HistoriesBounded ==
    /\ Len(state.seenMessages) <= 100
    /\ Len(state.keywordMatches) <= 100

\* Both histories are full and fingerprints have been evicted from them.
C6_HistoriesFull ==
    /\ Len(state.seenMessages) = 100
    /\ Len(state.keywordMatches) = 100
    /\ Clock > 100
    /\ getMessageFingerprint(StreamMessage(1)) \notin SeqToSet(state.seenMessages)
    /\ getMessageFingerprint(StreamMessage(1)) \notin SeqToSet(state.keywordMatches)

\* The history new holds the last 100 of the fingerprints of old followed
\* by the ones inserted since, in the order of their insertion; a
\* notification is shown for each insertion.
FirstInFirstOut(old, notices, new) ==
    LET inserted == old \o [n \in 1..Len(notices) |-> notices[n].fingerprint]
    IN  new = IF Len(inserted) > 100
              THEN SubSeq(inserted, Len(inserted) - 99, Len(inserted))
              ELSE inserted

\* C7: the history sets evict first-in first-out: after a batch each holds
\* the last 100 fingerprints inserted, in their insertion order; the
\* arrival of a message whose fingerprint a history holds inserts nothing
\* and leaves the order as it was.
C7_FirstInFirstOut ==
    [][last'.k > 0 =>
            /\ FirstInFirstOut(state.seenMessages, MentionNotices(last'),
                               state'.seenMessages)
            /\ FirstInFirstOut(state.keywordMatches,
                               SelectSeq(last'.notified,
                                         LAMBDA c : c.title[1] = "Keyword Alert: "),
                               state'.keywordMatches)
      ]_vars

\* Past the size limit, a message with a retained fingerprint arrived
\* again: nothing was shown and the histories hold the last 100
\* fingerprints, oldest first.
C7_RetainedRepeated ==
    /\ last.k = 2
    /\ last.notified = <<>>
    /\ Clock > 100
    /\ state.seenMessages =
            [i \in 1..100 |-> getMessageFingerprint(StreamMessage(Clock - 100 + i))]
    /\ state.keywordMatches = state.seenMessages


\* ------------------------------------------------------------------------
\* The self-highlighter and the pins together: both are started and
\* stopped, messages are pinned and unpinned, and the host page inserts a
\* message of another player's and one of the user's own.  The container
\* is in the document when the page loads, or stays away.
\* ------------------------------------------------------------------------

StyleBatches == Batches({MsgMention, MsgItem}, MaxBatch)

StyleMutation ==
    \E gone \in Removals(dom), added \in StyleBatches : Mutation(gone, added, FALSE)

NextStyles ==
    \/ StyleMutation
    \/ StartHighlighter
    \/ StopHighlighter
    \/ StartMarkers
    \/ StopMarkers
    \/ ToggleMessageMarker
    \/ ClearAllMarkers

SpecStyles == Init /\ [][NextStyles]_vars

\* The message carries the border highlightOwnMessages gives.
SelfHighlighted(msg) ==
    /\ msg.style.border = HIGHLIGHT_BORDER
    /\ msg.style.borderLeft = HIGHLIGHT_BORDER
    /\ msg.style.borderRadius = "6px"
    /\ msg.style.padding = "2px"

\* The message carries no border on any side.
Unbordered(msg) ==
    /\ msg.style.border = ""
    /\ msg.style.borderLeft = ""
    /\ msg.style.borderRadius = ""

\* C11: when the self-highlighter is stopped, no message that is not pinned
\* is left with the self-highlight border on any side, and every pinned
\* message carries the pin styling.
C11_StopRestoresPins ==
    [][(state.features.highlighting /\ ~state'.features.highlighting) =>
        \A i \in 1..Len(dom') :
            IsMessage(dom'[i]) =>
                IF "chat-marked" \in dom'[i].classList
                THEN PinStyled(dom'[i])
                ELSE /\ dom'[i].style.border # HIGHLIGHT_BORDER
                     /\ dom'[i].style.borderLeft # HIGHLIGHT_BORDER]_vars

\* C12: when a control of the script (the toggle, clear-all, stopping the
\* pins) takes the pin styling off a message, the message ends with the
\* self-highlight styling if it is the user's own and self-highlighting is
\* on, and with no border otherwise.
C12_UnpinRestores ==
    [][\A i \in 1..Len(dom) :
        (/\ last'.k = 0
         /\ Len(dom') = Len(dom)
         /\ IsMessage(dom[i])
         /\ "chat-marked" \in dom[i].classList
         /\ "chat-marked" \notin dom'[i].classList)
        => IF /\ state'.features.highlighting
              /\ ~falsy(state'.username)
              /\ isOwnMessage(dom[i], state'.username)
           THEN SelfHighlighted(dom'[i])
           ELSE Unbordered(dom'[i])]_vars

\* The pins were stopped with self-highlighting on, and a message of the
\* user's own that was in the document then, with a fingerprint pinned
\* then, carries the self-highlight styling.
C12_OwnUnpinnedHighlighted ==
    /\ ~state.features.markers
    /\ state.features.highlighting
    /\ \E i \in 1..Len(dom) :
            /\ IsMessage(dom[i])
            /\ getMessageFingerprint(dom[i]) \in discarded
            /\ dom[i].style.position = "relative"
            /\ isOwnMessage(dom[i], state.username)
            /\ "chat-marked" \notin dom[i].classList
            /\ SelfHighlighted(dom[i])

\* The message carries some of what applyMarkerStyle sets.
PinMarked(msg) ==
    \/ "chat-marked" \in msg.classList
    \/ msg.style.backgroundColor = MARKER_BG
    \/ msg.style.border = MARKER_BORDER
    \/ msg.style.borderLeft = MARKER_BORDER

\* C13: while the pins are off (after stopMarkers, and on a freshly loaded
\* page) the pin set is empty and no message carries pin styling or a pin
\* button; and a message that arrives is pin-styled only if its
\* fingerprint is in the pin set now, so not for a pin an earlier stop
\* discarded.
C13_PinsSessionOnly ==
    /\ ~state.features.markers =>
            /\ state.markedMessages = <<>>
            /\ \A i \in 1..Len(dom) :
                    IsMessage(dom[i]) => ~PinMarked(dom[i]) /\ dom[i].button = NoButton
    /\ \A j \in 1..last.k :
            PinMarked(BatchMessage(dom, last, j)) =>
                has(state.markedMessages, getMessageFingerprint(BatchMessage(dom, last, j)))

\* The pins are on again, and a message arrived whose fingerprint the last
\* stop discarded: it got its button and no pin styling.
C13_DiscardedArrivesUnpinned ==
    /\ state.features.markers
    /\ \E j \in 1..last.k :
            LET msg == BatchMessage(dom, last, j)
            IN  /\ getMessageFingerprint(msg) \in discarded
                /\ ~has(state.markedMessages, getMessageFingerprint(msg))
                /\ msg.button # NoButton
                /\ ~PinMarked(msg)


\* C14: a second call of a feature's start function, with no stop in
\* between, changes nothing: not the feature flags, the sets, the stored
\* values, the styling and buttons, the number of attached observers or of
\* waiting findChatContainer calls.  in1 and in2 are what the prompts of
\* the two calls return; a first call the user cancelled started nothing,
\* and is followed by the same answer.
C14_StartTwiceAsOnce ==
    /\ \A in1, in2 \in Usernames \cup {Null} :
            LET once == startMentionWatcher(World, in1)
            IN  (once.state.features.mentions \/ in1 = in2)
                    => startMentionWatcher(once, in2) = once
    /\ \A in1, in2 \in Usernames \cup {Null} :
            LET once == startHighlighter(World, in1)
            IN  (once.state.features.highlighting \/ in1 = in2)
                    => startHighlighter(once, in2) = once
    /\ startSeparator(startSeparator(World)) = startSeparator(World)
    /\ startMarkers(startMarkers(World)) = startMarkers(World)
    /\ \A in1, in2 \in KeywordInputs \cup {NoKeywords} :
            LET once == startKeywordWatcher(World, in1)
            IN  (once.state.features.keywords \/ in1 = in2)
                    => startKeywordWatcher(once, in2) = once

\* The pins were started once and their startObserver call still waits for
\* the container: a second start would wait on a second timer.
C14_StartedAndWaiting ==
    /\ state.features.markers
    /\ state.observer = Null
    /\ finders # <<>>
    /\ startMarkers(World) = World


\* ------------------------------------------------------------------------
\* The ways of writing one player's name: the user types one of them at
\* the prompt of the self-highlighter, and the host page inserts messages
\* whose profile link names one of them.
\* ------------------------------------------------------------------------

PlayerOne == <<"P", "l", "a", "y", "e", "r", "O", "n", "e">>
PlayerPlusOne == <<"p", "l", "a", "y", "e", "r", "+", "o", "n", "e">>
AtPlayerOneColon == <<"@">> \o PlayerOne \o <<":">>
PlayerSpaceOne == <<"P", "l", "a", "y", "e", "r", " ", "O", "n", "e">>

\* The written forms without a space or "+" between the words, and those
\* with one.
OneWord == {PlayerOne, AtPlayerOneColon}
TwoWords == {PlayerPlusOne, PlayerSpaceOne}

Identities == OneWord \cup TwoWords

IdentityMessage(profile) == Message(<<"3">>, profile, profile, <<"h", "i">>, <<>>)

IdentityBatches == Batches({IdentityMessage(p) : p \in Identities}, MaxBatch)

IdentityMutation ==
    \E gone \in Removals(dom), added \in IdentityBatches : Mutation(gone, added, FALSE)

StartHighlighterAs ==
    /\ ~state.features.highlighting
    /\ MayStartObserver
    /\ \E input \in Identities \cup {Null} : Becomes(startHighlighter(World, input))

NextIdentity ==
    \/ IdentityMutation
    \/ StartHighlighterAs
    \/ StopHighlighter

SpecIdentity == Init /\ [][NextIdentity]_vars

\* C15 as stated: "PlayerOne", "player+one" and "@PlayerOne:" are one
\* author, so with any of them the stored identity, a message that arrives
\* under any of them is classified as the user's own and highlighted.
C15_VariantsOneAuthor ==
    (state.features.highlighting /\ last.k > 0) =>
        \A j \in 1..last.k :
            BatchMessage(dom, last, j).profile \in {PlayerOne, PlayerPlusOne, AtPlayerOneColon}
                => SelfHighlighted(BatchMessage(dom, last, j))

\* C15 amended: "PlayerOne" and "@PlayerOne:" are one author, "player+one"
\* and "Player One" another; a message that arrives is classified as the
\* user's own exactly if its profile name and the stored identity are the
\* same author.
C15_OwnIffSameWords ==
    (state.features.highlighting /\ last.k > 0) =>
        \A j \in 1..last.k :
            SelfHighlighted(BatchMessage(dom, last, j))
                <=> ((BatchMessage(dom, last, j).profile \in OneWord)
                        <=> (state.username \in OneWord))

\* The user typed "Player One", and a message under "player+one" arrived
\* and was highlighted.
C15_PlusIsSpace ==
    /\ state.features.highlighting
    /\ state.username = PlayerSpaceOne
    /\ \E j \in 1..last.k :
            /\ BatchMessage(dom, last, j).profile = PlayerPlusOne
            /\ SelfHighlighted(BatchMessage(dom, last, j))


\* ------------------------------------------------------------------------
\* getMessageFingerprint over messages whose timestamp and body texts come
\* from small sets: the host page inserts them, and the pins take their
\* fingerprints.
\* ------------------------------------------------------------------------

\* The texts of children[0]: a time with and without a colon.
Timestamps == {<<"1">>, <<"1", ":", "2">>}

\* The texts of children[5]: with a colon, and with a space at the end.
Bodies == {<<"3">>, <<"2", ":", "3">>, <<"3", " ">>}

\* The host page inserts them one at a time.
FingerprintBatches ==
    Batches({Message(t, Al, Al, b, <<>>) : t \in Timestamps, b \in Bodies}, 1)

FingerprintMutation ==
    \E gone \in Removals(dom), added \in FingerprintBatches : Mutation(gone, added, FALSE)

NextFingerprint ==
    \/ FingerprintMutation
    \/ StartMarkers
    \/ ToggleMessageMarker

SpecFingerprint == Init /\ [][NextFingerprint]_vars

\* C16: two messages with equal fingerprints have equal timestamp text and
\* equal body text; and two messages with equal timestamp and body texts
\* have equal fingerprints.
C16_FingerprintDeterminesFields ==
    \A i, j \in 1..Len(dom) :
        (IsMessage(dom[i]) /\ IsMessage(dom[j])) =>
            /\ getMessageFingerprint(dom[i]) = getMessageFingerprint(dom[j])
                    => /\ dom[i].timestamp = dom[j].timestamp
                       /\ dom[i].text = dom[j].text
            /\ (dom[i].timestamp = dom[j].timestamp /\ dom[i].text = dom[j].text)
                    => getMessageFingerprint(dom[i]) = getMessageFingerprint(dom[j])


\* ------------------------------------------------------------------------
\* Container discovery: its failure, and its end
\* ------------------------------------------------------------------------

\* C17: when a feature's discovery has failed (the feature was started, no
\* observer is attached and no findChatContainer call waits any more),
\* calling the feature's start again looks for the container again: it
\* attaches the observer or waits on a timer.
C17_FailedStartRetries ==
    (state.observer = Null /\ finders = <<>>) =>
        /\ state.features.separator =>
                LET again == startSeparator(World)
                IN  again.state.observer # Null \/ again.finders # <<>>
        /\ state.features.markers =>
                LET again == startMarkers(World)
                IN  again.state.observer # Null \/ again.finders # <<>>

\* The timer of the f-th waiting findChatContainer fires.
FindChatContainerAt(f) ==
    /\ f \in 1..Len(finders)
    /\ Becomes(findChatContainer(World, f))

\* The features are started and stopped and the container may appear; the
\* event loop runs every timer that is due, so each waiting
\* findChatContainer call gets its turn.
SpecPolling ==
    /\ Init
    /\ [][NextObserver]_vars
    /\ \A f \in 1..MaxFinders : WF_vars(FindChatContainerAt(f))

\* C18: no findChatContainer call has looked more than maxAttempts times,
\* and none waits for ever: unless features are started again and again
\* without end, each start adding a waiting call, there comes a time when
\* every call has attached the observer or failed.
C18_DiscoveryTerminates ==
    /\ [](\A f \in 1..Len(finders) : finders[f] <= maxAttempts)
    /\ \/ []<>(finders = <<>>)
       \/ []<><<Len(finders') > Len(finders)>>_vars

\* A discovery has failed: the separator is on, the container never came,
\* and nothing waits or observes.
C18_DiscoveryFailed ==
    /\ state.features.separator
    /\ ~container
    /\ state.observer = Null
    /\ finders = <<>>


\* ------------------------------------------------------------------------
\* Observation after a handler has failed
\* ------------------------------------------------------------------------

\* C19: a failure never ends the observation.  On every batch, whatever
\* failed before it: the observers stay attached and state.observer stays
\* set; the callback of every attached observer runs; and each callback
\* calls the handlers in order from the first, all five unless a handler
\* throws on this very batch.
C19_FailureKeepsObserving ==
    [][last'.k > 0 =>
        /\ observers' = observers
        /\ state'.observer = state.observer
        /\ Len(last'.calls) = observers
        /\ \A n \in 1..Len(last'.calls) :
                LET invoked == last'.calls[n].invoked
                IN  /\ invoked # <<>>
                    /\ invoked = SubSeq(HandlerOrder, 1, Len(invoked))
                    /\ ~last'.calls[n].error => invoked = HandlerOrder]_vars

\* A fingerprint is in the mention history for which no notification was
\* shown: showNotification threw on an earlier batch.  The batch of the
\* last step was dispatched, and every handler was called on it.
C19_DispatchedAfterFailure ==
    /\ last.k > 0
    /\ observers > 0
    /\ \E fp \in SeqToSet(state.seenMessages) : fp \notin mentioned
    /\ \A n \in 1..Len(last.calls) :
            ~last.calls[n].error /\ last.calls[n].invoked = HandlerOrder


\* ------------------------------------------------------------------------
\* The notification permission: the two alert features are started, the
\* user answers the browser's question, and the host page inserts a
\* message that mentions the user and one that shows the watched item.
\* ------------------------------------------------------------------------

PermissionBatches == Batches({MsgMention, MsgItem}, MaxBatch)

PermissionMutation ==
    \E gone \in Removals(dom), added \in PermissionBatches : Mutation(gone, added, FALSE)

\* The user answers the question Notification.requestPermission() put.
PermissionAnswered ==
    /\ platform.requested
    /\ platform.permission = "default"
    /\ \E answer \in {"granted", "denied"} :
            Becomes([World EXCEPT !.platform.permission = answer])

NextPermission ==
    \/ PermissionMutation
    \/ StartMentionWatcher
    \/ StopMentionWatcher
    \/ StartKeywordWatcher
    \/ StopKeywordWatcher
    \/ PermissionAnswered

SpecPermission == Init /\ [][NextPermission]_vars

\* C20: where notifications need the browser's permission (GM_notification
\* is not defined), every showNotification call, for a mention or for a
\* keyword, comes after the permission was requested.
C20_RequestedBeforeNotify ==
    (last.notified # <<>> /\ ~platform.GM_notification) => platform.requested


\* ------------------------------------------------------------------------
\* The page is reloaded: the features are started, never stopped, and the
\* browser loads the page again.
\* ------------------------------------------------------------------------

\* The page loaded again over the world w: the script starts with a new
\* state object and a new document, its observers and timers are gone;
\* localStorage and the browser's permission stay.  present: the chat
\* container is in the new document when init runs.
reload(w, present) ==
    startSeparator(
        [state |-> InitialState, dom |-> <<>>, container |-> present,
         localStorage |-> w.localStorage,
         observers |-> 0, finders |-> <<>>,
         platform |-> [w.platform EXCEPT !.requested = FALSE],
         notified |-> <<>>, invoked |-> <<>>, calls |-> <<>>, thrown |-> FALSE])

Reload == \E present \in BOOLEAN : Becomes(reload(World, present))

NextReload ==
    \/ Reload
    \/ ContainerAppears
    \/ FindChatContainer
    \/ StartMentionWatcher
    \/ StartHighlighter
    \/ StartMarkers
    \/ StartKeywordWatcher

SpecReload == Init /\ [][NextReload]_vars

\* C21: with no feature ever stopped by the user, a mentions,
\* highlighting, separator or keywords toggle that is on stays on over
\* every step, the reload of the page included.
C21_TogglesSurviveReload ==
    [][/\ state.features.mentions => state'.features.mentions
       /\ state.features.highlighting => state'.features.highlighting
       /\ state.features.separator => state'.features.separator
       /\ state.features.keywords => state'.features.keywords]_vars


\* ------------------------------------------------------------------------
\* The keyword matcher: two keywords, messages naming two items, and a
\* message whose text holds a keyword.
\* ------------------------------------------------------------------------

Egg == <<"E", "g", "g">>
Bag == <<"B", "a", "g">>
EggKeyword == <<"e", "g", "g">>
BagKeyword == <<"b", "a", "g">>

\* The texts the user types into the keyword prompt, split at the commas.
MatcherInputs == {<<EggKeyword, BagKeyword>>, <<BagKeyword, EggKeyword>>}

MsgBodyOnly == Message(<<"3">>, Al, Al, <<"w", "t", "s", " ">> \o EggKeyword, <<>>)
MsgEggBag == Message(<<"1">>, Al, Al, <<"w", "t", "s">>, <<Egg, Bag>>)
MsgBagEgg == Message(<<"2">>, Al, Al, <<"w", "t", "s">>, <<Bag, Egg>>)

MatcherBatches == Batches({MsgBodyOnly, MsgEggBag, MsgBagEgg}, MaxBatch)

MatcherMutation ==
    \E gone \in Removals(dom), added \in MatcherBatches : Mutation(gone, added, FALSE)

StartKeywordWatcherWith ==
    /\ ~state.features.keywords
    /\ MayStartObserver
    /\ \E input \in MatcherInputs : Becomes(startKeywordWatcher(World, input))

NextMatcher ==
    \/ MatcherMutation
    \/ StartKeywordWatcherWith
    \/ StopKeywordWatcher

SpecMatcher == Init /\ [][NextMatcher]_vars

\* No item of msg has a name containing a keyword of the set.
NoItemMatches(msg) ==
    \A n \in 1..Len(msg.items), m \in 1..Len(state.keywords) :
        ~includes(toLowerCase(msg.items[n]), state.keywords[m])

\* The text of msg contains a keyword of the set.
BodyMatches(msg) ==
    /\ ~falsy(msg.text)
    /\ \E m \in 1..Len(state.keywords) : includes(toLowerCase(msg.text), state.keywords[m])

C24_FirstKeywordInSetOrder ==
    \A j \in 1..last.k :
        LET msg == BatchMessage(dom, last, j)
            notices == KeywordNotices(last, getMessageFingerprint(msg))
        IN  state.features.keywords /\ notices # <<>>
                => notices[1].title[2] = matchItemsKeywordsFirst(msg.items, state.keywords)

\* The item at n has a name containing the keyword at m of the set.
ItemMatches(msg, n, m) == includes(toLowerCase(msg.items[n]), state.keywords[m])

\* C24, amended: the keyword a notification reports for a message of the
\* batch is decided by the first item, in the message's order, that any
\* keyword matches: it is the first keyword, in the insertion order of the
\* keyword set, that this item's name contains.
C24_FirstKeywordOfFirstItem ==
    \A j \in 1..last.k :
        LET msg == BatchMessage(dom, last, j)
            notices == KeywordNotices(last, getMessageFingerprint(msg))
            matched == {n \in 1..Len(msg.items) :
                            \E m \in 1..Len(state.keywords) : ItemMatches(msg, n, m)}
        IN  state.features.keywords /\ notices # <<>>
                => \E n \in matched, m \in 1..Len(state.keywords) :
                        /\ \A i \in matched : n <= i
                        /\ ItemMatches(msg, n, m)
                        /\ \A i \in 1..(m - 1) : ~ItemMatches(msg, n, i)
                        /\ notices[1].title[2] = state.keywords[m]

\* A notification was shown for a message of the batch whose first item
\* matches only the second keyword of the set and whose second item matches
\* the first keyword.
C24_ItemsAgainstSetOrder ==
    /\ state.features.keywords
    /\ Len(state.keywords) = 2
    /\ \E j \in 1..last.k :
            LET msg == BatchMessage(dom, last, j)
            IN  /\ KeywordNotices(last, getMessageFingerprint(msg)) # <<>>
                /\ Len(msg.items) = 2
                /\ ItemMatches(msg, 1, 2) /\ ~ItemMatches(msg, 1, 1)
                /\ ItemMatches(msg, 2, 1)


\* ------------------------------------------------------------------------
\* Messages with missing children.  The fields are positional: an element
\* with fewer than six children has no children[5], one with fewer than
\* three has no children[2] either, one with none has no children[0].
\* ------------------------------------------------------------------------

MsgNoBody == Message(<<"1">>, Bo, <<"b", "o">>, Null, <<>>)
MsgEmpty == Message(Null, Null, Null, Null, <<>>)

\* A complete message that mentions the user and names a watched item.
MsgMentionItem ==
    Message(<<"2">>, Al, Al, <<"h", "i", " ", "b", "o">>, <<DragonEgg>>)

MalformedBatches ==
    Batches({MsgNoBody, MsgEmpty, MsgMentionItem}, MaxBatch)

MalformedMutation ==
    \E gone \in Removals(dom), added \in MalformedBatches : Mutation(gone, added, FALSE)

NextMalformed ==
    \/ MalformedMutation
    \/ StartMentionWatcher
    \/ StartHighlighter
    \/ StopSeparator
    \/ StartMarkers
    \/ StartKeywordWatcher

SpecMalformed == Init /\ [][NextMalformed]_vars

MissingField(msg) == msg.timestamp = Null \/ msg.author = Null \/ msg.text = Null

\* No mention or keyword notification of the step l describes is about fp.
Unnoticed(l, fp) ==
    /\ SelectSeq(MentionNotices(l), LAMBDA c : c.fingerprint = fp) = <<>>
    /\ KeywordNotices(l, fp) = <<>>

\* No callback of the last step ended in its catch block.
NothingThrown == \A n \in 1..Len(last.calls) : ~last.calls[n].error

\* Every complete message of the batch that mentions the user, or names a
\* watched item, is in the history of the enabled handler after the batch.
RestProcessed ==
    \A j \in 1..last.k :
        LET msg == BatchMessage(dom, last, j)
        IN  ~MissingField(msg) =>
                /\ (/\ state.features.mentions /\ ~falsy(state.username)
                     /\ includes(toLowerCase(msg.text), toLowerCase(state.username)))
                        => has(state.seenMessages, getMessageFingerprint(msg))
                /\ (/\ state.features.keywords
                     /\ ~NoItemMatches(msg))
                        => has(state.keywordMatches, getMessageFingerprint(msg))

\* C23, as claimed: a message of the batch that lacks its timestamp, author
\* or body is matched by no handler (no notification, no keyword styling,
\* no self-highlight, no pin styling), no handler throws, and the other
\* messages of the batch are processed.
C23_MalformedNeverMatches ==
    /\ NothingThrown
    /\ RestProcessed
    /\ \A j \in 1..last.k :
            LET msg == BatchMessage(dom, last, j)
            IN  MissingField(msg) =>
                    /\ Unnoticed(last, getMessageFingerprint(msg))
                    /\ ~KeywordStyled(msg)
                    /\ ~SelfHighlighted(msg)
                    /\ ~PinStyled(msg)

\* C23, amended: no handler throws on a message that lacks a field, and the
\* other messages of the batch are processed; the mention and the keyword
\* handler skip it (no notification, no styling, no badge, no history
\* entry); the self-highlighter looks at the profile link only and
\* highlights it exactly when the link names the user.
C23_BodylessSkippedByMatchers ==
    /\ NothingThrown
    /\ RestProcessed
    /\ \A j \in 1..last.k :
            LET msg == BatchMessage(dom, last, j)
                fingerprint == getMessageFingerprint(msg)
            IN  MissingField(msg) =>
                    /\ Unnoticed(last, fingerprint)
                    /\ ~KeywordStyled(msg)
                    /\ msg.badges = <<>>
                    /\ ~has(state.seenMessages, fingerprint)
                    /\ ~has(state.keywordMatches, fingerprint)
                    /\ SelfHighlighted(msg) <=>
                            /\ state.features.highlighting
                            /\ ~falsy(state.username)
                            /\ isOwnMessage(msg, state.username)

\* The mention handler ran on a batch whose first message lacks a field and
\* whose second message mentions the user, and notified of the second.
C23_MentionAfterMalformed ==
    /\ last.k = 2
    /\ state.features.mentions
    /\ MissingField(BatchMessage(dom, last, 1))
    /\ ~MissingField(BatchMessage(dom, last, 2))
    /\ ~Unnoticed(last, getMessageFingerprint(BatchMessage(dom, last, 2)))


\* The elements displayed before the batch of the step into d2 are elements
\* of d, as they were.
OlderUntouched(d, d2, k) ==
    \A i \in 1..Len(d2) :
        IsMessage(d2[i]) /\ i \notin BatchSet(d2, k) => \E i0 \in 1..Len(d) : d[i0] = d2[i]

C26_PinnedCarriesPinBorder ==
    \A i \in 1..Len(dom) :
        IsMessage(dom[i]) /\ "chat-marked" \in dom[i].classList
            => /\ dom[i].style.border = MARKER_BORDER
               /\ dom[i].style.borderLeft = MARKER_BORDER


\* C27: every displayed message that carries pin styling has its
\* fingerprint in the pin set, also when two displayed messages have the
\* same fingerprint.
C27_PinStyledIsPinned ==
    \A i \in 1..Len(dom) :
        IsMessage(dom[i]) /\ "chat-marked" \in dom[i].classList
            => has(state.markedMessages, getMessageFingerprint(dom[i]))


\* C28: a message the keyword handler has styled, and that is not pinned
\* (it never was, or it was pinned and unpinned again), carries the keyword
\* styling: the left border and the background of the keyword highlight.
C28_UnpinnedKeepsKeywordStyling ==
    \A i \in 1..Len(dom) :
        /\ IsMessage(dom[i])
        /\ "chat-keyword-match" \in dom[i].classList
        /\ "chat-marked" \notin dom[i].classList
        => /\ dom[i].style.borderLeft = KEYWORD_BORDER_LEFT
           /\ dom[i].style.backgroundColor = KEYWORD_HIGHLIGHT_BG


\* ------------------------------------------------------------------------
\* Reset All.
\* ------------------------------------------------------------------------

NextReset ==
    \/ MentionMutation
    \/ StartMentionWatcher
    \/ StartMarkers
    \/ ToggleMessageMarker
    \/ ResetAll

SpecReset == Init /\ [][NextReset]_vars

\* C29: after Reset All the session state is the initial one: the five
\* toggles are off, the username is null in memory and absent from the
\* store, the mention history, the keyword history and the pin set are
\* empty, the leading fingerprint is cleared and no observer is attached.
C29_ResetRestoresInitial ==
    [][ResetAll =>
        /\ state'.features = InitialState.features
        /\ state'.username = Null
        /\ localStorage'.username = Null
        /\ state'.seenMessages = <<>>
        /\ state'.keywordMatches = <<>>
        /\ state'.markedMessages = <<>>
        /\ state'.lastKnownMessage = Null
        /\ state'.observer = Null
        /\ observers' = 0]_vars

=============================================================================
